---- MODULE Spec2Model ----
(***************************************************************************)
(* Model of GYG.py: the GetYourGuide booking mail synchroniser.            *)
(*                                                                         *)
(* main() connects to the mailbox, takes the latest messages and, for each *)
(* one, classifies it, asks an extraction oracle for the booking fields,   *)
(* and reconciles the result with the "bookings" collection: delete on a   *)
(* cancellation, smart_merge into an existing booking, or insert.          *)
(*                                                                         *)
(* Conventions.  Python's None is the string None below; a dict key that   *)
(* is missing and a key holding None are not told apart (the code reads    *)
(* candidates with .get and skips None values).  Integers are written as   *)
(* their decimal numerals ("2"); a JSON string is written with quotes      *)
(* inside ("'3'").  Timestamps are ticks of a logical clock.  MongoDB's    *)
(* _id is not modelled: documents are told apart by their position in      *)
(* the collection, which is the order find_one/update_one/delete_one use.  *)
(***************************************************************************)
EXTENDS Integers, Sequences, FiniteSets, TLC

VARIABLES
    pc,          \* position of main(): "start", "loop", "done"
    use_g4f,     \* USE_G4F, fixed at import time
    n,           \* len(email_ids[-5:]), the number of messages of the batch
    idx,         \* number of messages of the batch already handled
    store,       \* the bookings collection, in insertion (natural) order
    processed,   \* counters of main()
    saved,
    updated,
    cancelled,
    duplicates,
    errors,
    last         \* what the last loop iteration did (its prints), and the
                 \* collection as it was before that iteration

vars == << pc, use_g4f, n, idx, store, processed, saved, updated, cancelled,
           duplicates, errors, last >>

None == "None"

\* ---------------------------------------------------------------- bounds
\* Largest mailbox the model considers.
MaxMailbox == 3

\* email_ids[-5:]
BatchLimit == 5

Min(a, b) == IF a < b THEN a ELSE b

\* ------------------------------------------------------------ text model
\* A text is a sequence of words.  str.lower() on the words of the model.
Lower(w) ==
    CASE w = "New" -> "new"
      [] w = "Date" -> "date"
      [] w = "Hi" -> "hi"
      [] w = "Dear" -> "dear"
      [] w = "John" -> "john"
      [] w = "Maria" -> "maria"
      [] w = "Lopez" -> "lopez"
      [] w = "Your" -> "your"
      [] w = "Weekly" -> "weekly"
      [] w = "Booking" -> "booking"
      [] OTHER -> w

LowerText(t) == [i \in 1..Len(t) |-> Lower(t[i])]

\* [A-Z][a-z]+ : a capitalised word.
Capitalised(w) ==
    w \in {"New", "Date", "Hi", "Dear", "John", "Maria", "Lopez", "Your",
           "Weekly", "Booking"}

\* A phrase (a sequence of words) occurs in a text at position i.
OccursAt(phrase, t, i) ==
    /\ i + Len(phrase) - 1 <= Len(t)
    /\ \A k \in 1..Len(phrase) : t[i + k - 1] = phrase[k]

Occurs(phrase, t) == \E i \in 1..Len(t) : OccursAt(phrase, t, i)

\* word a, later some word of ws (the model's texts are single lines)
ThenLater(a, ws, t) ==
    \E i \in 1..Len(t) : \E j \in (i + 1)..Len(t) : t[i] = a /\ t[j] \in ws

FieldWords == {"date", "pickup", "address", "time", "participants"}

\* detect_amendment: the patterns, searched in the lower-cased text
detect_amendment(email_content, subject) ==
    LET combined == LowerText(subject \o email_content)
    IN  \/ \E i \in 1..Len(combined) :
              \E j \in (i + 1)..Len(combined) :
                  combined[i] = "~~" /\ combined[j] = "~~"
        \/ ThenLater("new", FieldWords, combined)
        \/ \E f \in FieldWords : ThenLater(f, {"new"}, combined)
        \/ \E w \in {"amended", "updated", "changed", "modification"} :
              Occurs(<<w>>, combined)

\* The allowed patterns, optional groups expanded, as phrases.
allowed_patterns ==
    { <<"new", "booking">>, <<"booking">>, <<"booking", "confirmation">>,
      <<"booking", "details">>, <<"booking", "detail", "change">>,
      <<"change", "booking">>, <<"amend">>, <<"amendment">>, <<"amended">>,
      <<"update", "booking">>, <<"updated", "booking">>,
      <<"urgent", "booking">>, <<"urgent:", "new", "booking", "received">>,
      <<"cancel", "booking">>, <<"cancellation", "booking">>,
      <<"cancelled", "booking">>, <<"booking", "cancelled">> }

is_allowed_booking_email(subject, email_content) ==
    LET combined == LowerText(subject \o email_content)
    IN  \E p \in allowed_patterns : Occurs(p, combined)

\* " ".join of one or two captured words
JoinName(ws) ==
    IF Len(ws) = 1 THEN ws[1]
    ELSE CASE ws = <<"Maria", "Lopez">> -> "Maria Lopez"
           [] ws = <<"John", "New">> -> "John New"
           [] OTHER -> "Other Name"

Salutations == {"Hi", "Hello", "Dear", "Hey"}

\* The match of a greeting pattern starting at word i: the one or two
\* capitalised words after the salutation (the optional group is greedy).
GreetingAt(t, i, skip) ==
    IF i + skip + 1 <= Len(t) /\ Capitalised(t[i + skip + 1])
    THEN <<t[i + skip], t[i + skip + 1]>>
    ELSE <<t[i + skip]>>

\* extract_greeting_name: the first pattern that matches anywhere wins, and
\* within a pattern the leftmost match.  The texts of the model are shorter
\* than the 500 characters the code looks at.
extract_greeting_name(email_content) ==
    LET t == email_content
        hits1 == {i \in 1..Len(t) : /\ t[i] \in Salutations
                                     /\ i + 1 <= Len(t)
                                     /\ Capitalised(t[i + 1])}
        hits2 == {i \in 1..Len(t) : /\ t[i] = "Good"
                                     /\ i + 2 <= Len(t)
                                     /\ t[i + 1] \in {"morning", "afternoon", "evening"}
                                     /\ Capitalised(t[i + 2])}
        first(S) == CHOOSE i \in S : \A j \in S : i <= j
    IN  IF hits1 # {} THEN JoinName(GreetingAt(t, first(hits1), 1))
        ELSE IF hits2 # {} THEN JoinName(GreetingAt(t, first(hits2), 2))
        ELSE None

\* The messages of the mailbox the model draws from.
Messages ==
    { [subject |-> <<"New", "booking">>, content |-> <<"booking", "received">>],
      [subject |-> <<"Booking">>,
       content |-> <<"Hi", "John", "your", "booking", "was", "updated">>],
      [subject |-> <<"Booking">>,
       content |-> <<"Hi", "John", "thanks", "for", "your", "booking">>],
      [subject |-> <<"booking", "confirmation">>,
       content |-> <<"Dear", "Maria", "Lopez", "see", "booking", "details">>],
      [subject |-> <<"booking", "detail", "change">>,
       content |-> <<"Dear", "Maria", "Lopez", "New", "Date", "below">>],
      [subject |-> <<"booking", "changed">>, content |-> <<"see", "below">>],
      [subject |-> <<"Weekly", "newsletter">>, content |-> <<"Hi", "John">>],
      [subject |-> <<"Your", "tour">>, content |-> <<"was", "updated">>] }

\* ------------------------------------------------------- extraction oracle
\* None where a dict is expected: a parser that returns None, find_one that
\* finds nothing.
Nothing == [none |-> TRUE]

\* What a backend's call can end in without a JSON object: an exception, a
\* status other than 200, text that json.loads rejects.
Failure == [failure |-> TRUE]

Raw(ref, name, phone, date, time, pax, tour, vehicle, addr, cancel, amend) ==
    [ booking_reference |-> ref, name |-> name, phoneNumber |-> phone,
      tourDate |-> date, tourTime |-> time, totalPassengers |-> pax,
      tour |-> tour, vehicleType |-> vehicle, address |-> addr,
      is_cancellation |-> cancel, is_amendment |-> amend ]

\* A JSON object that carries metadata keys the prompt did not ask for.
WithMetadata(raw, platform, specialRequirements, createdAt) ==
    [f \in DOMAIN raw \cup {"platform", "specialRequirements", "createdAt"} |->
        CASE f = "platform" -> platform
          [] f = "specialRequirements" -> specialRequirements
          [] f = "createdAt" -> createdAt
          [] OTHER -> raw[f]]

\* The JSON objects the oracle answers with in the model.
Responses ==
    { \* a complete new booking, reference in lower case
      Raw("gyg1", "Maria Lopez", "+1555", "March 1, 2026", "6:00 AM", "2",
          "City Tour", "Private Car", "Hotel Plaza", FALSE, FALSE),
      \* the same booking as the oracle reads it from an amendment mail
      Raw("GYG1", "Maria Lopez", "+1555", "March 5, 2026", "6:00 AM", "'3'",
          "City Tour", "Private Car", "Hotel Plaza", FALSE, TRUE),
      \* an amendment that carries a new date only
      Raw("GYG1", None, None, "March 5, 2026", None, None,
          None, None, None, FALSE, TRUE),
      \* a new date with metadata of the oracle's own
      WithMetadata(Raw("GYG1", None, None, "March 5, 2026", None, None,
                       None, None, None, FALSE, TRUE),
                   "Viator", "Wheelchair", "2020-01-01"),
      \* a single-token name, alone and with a phone number
      Raw("GYG1", "John", None, None, None, None,
          None, None, None, FALSE, FALSE),
      Raw("GYG1", "John", "+1555", "March 1, 2026", None, None,
          None, None, None, FALSE, FALSE),
      \* another customer name and phone number
      Raw("GYG1", "Ana Diaz", "+1666", None, None, None,
          None, None, None, FALSE, FALSE),
      \* empty strings and a passenger count that is no number
      Raw("GYG1", "", "", "", "", "'two'",
          None, "", None, FALSE, FALSE),
      \* no booking reference
      Raw(None, "Maria Lopez", "+1555", "March 1, 2026", None, "2",
          None, None, None, FALSE, FALSE),
      \* cancellations, with and without a reference
      Raw("GYG1", None, None, None, None, None,
          None, None, None, TRUE, FALSE),
      Raw(None, None, None, None, None, None,
          None, None, None, TRUE, FALSE),
      \* a second booking and its cancellation
      Raw("GYG2", "Maria Lopez", "+1555", "March 1, 2026", None, "'two'",
          None, None, None, FALSE, FALSE),
      Raw("GYG2", None, None, None, None, None,
          None, None, None, TRUE, FALSE) }

\* One extraction attempt: what g4f answers and what Hugging Face answers.
\* Hugging Face is asked only when g4f is missing or gave nothing.
OracleDraws ==
    {<<r, Failure>> : r \in Responses \cup {Failure}}
        \cup {<<Failure, r>> : r \in Responses}

\* Python truthiness of a field value
Truthy(v) == v # None /\ v # ""

\* str.upper() on the references of the model
Upper(s) ==
    CASE s = "gyg1" -> "GYG1"
      [] s = "gyg2" -> "GYG2"
      [] OTHER -> s

IntError == "ValueError"

\* int(v): a number, a numeric string, or ValueError
IntOf(v) ==
    CASE v = "2" -> "2"
      [] v = "'3'" -> "3"
      [] OTHER -> IntError

parse_with_g4f(response) ==
    IF response = Failure THEN Nothing
    ELSE LET p1 == IF Truthy(response.booking_reference)
                   THEN [response EXCEPT !.booking_reference = Upper(@)]
                   ELSE response
         IN  IF Truthy(p1.totalPassengers)
             THEN IF IntOf(p1.totalPassengers) = IntError
                  THEN [p1 EXCEPT !.totalPassengers = None]
                  ELSE [p1 EXCEPT !.totalPassengers = IntOf(@)]
             ELSE p1

parse_with_huggingface(response) ==
    IF response = Failure THEN Nothing
    ELSE LET p1 == IF Truthy(response.booking_reference)
                   THEN [response EXCEPT !.booking_reference = Upper(@)]
                   ELSE response
         IN  IF Truthy(p1.totalPassengers)
             THEN IF IntOf(p1.totalPassengers) = IntError
                  THEN Nothing    \* int() raises, the except returns None
                  ELSE [p1 EXCEPT !.totalPassengers = IntOf(@)]
             ELSE p1

parse_with_ai(g4f_response, hf_response, g4f_present) ==
    LET first == IF g4f_present THEN parse_with_g4f(g4f_response) ELSE Nothing
    IN  IF first # Nothing THEN first
        ELSE parse_with_huggingface(hf_response)

\* ------------------------------------------------------------ collection
\* dict.get(field)
Get(d, f) == IF f \in DOMAIN d THEN d[f] ELSE None

Matches(coll, ref) == {i \in 1..Len(coll) : coll[i].booking_reference = ref}

FirstMatch(coll, ref) ==
    CHOOSE i \in Matches(coll, ref) : \A j \in Matches(coll, ref) : i <= j

\* collection.find_one({"booking_reference": ref})
find_one(coll, ref) ==
    IF Matches(coll, ref) = {} THEN Nothing ELSE coll[FirstMatch(coll, ref)]

\* Mutant of delete_one: the first document goes, whatever its reference.
delete_one_Any(coll, ref) ==
    IF coll = <<>> THEN coll ELSE Tail(coll)

\* collection.delete_one({"booking_reference": ref})
delete_one(coll, ref) ==
    IF Matches(coll, ref) = {} THEN coll
    ELSE LET k == FirstMatch(coll, ref)
         IN  [i \in 1..(Len(coll) - 1) |-> IF i < k THEN coll[i] ELSE coll[i + 1]]

\* collection.update_one({"booking_reference": ref}, {"$set": doc})
update_one(coll, ref, doc) ==
    IF Matches(coll, ref) = {} THEN coll
    ELSE [coll EXCEPT ![FirstMatch(coll, ref)] =
              [f \in DOMAIN @ \cup DOMAIN doc |->
                  IF f \in DOMAIN doc THEN doc[f] ELSE @[f]]]

\* collection.insert_one(doc)
insert_one(coll, doc) == Append(coll, doc)

\* ----------------------------------------------------------- smart_merge
protected_fields == {"name", "phoneNumber"}

\* Mutant of skipped_fields: platform is merged like a data field.
skipped_fields_NoPlatform ==
    {"_id", "createdAt", "updatedAt", "specialRequirements",
     "is_cancellation", "is_amendment"}

\* the metadata fields the merge loop skips
skipped_fields ==
    {"_id", "createdAt", "updatedAt", "platform", "specialRequirements",
     "is_cancellation", "is_amendment"}

\* str.split() on the names of the model
Split(s) ==
    CASE s = "" -> <<>>
      [] s = "Maria Lopez" -> <<"Maria", "Lopez">>
      [] s = "Ana Diaz" -> <<"Ana", "Diaz">>
      [] s = "John New" -> <<"John", "New">>
      [] OTHER -> <<s>>

\* Mutant of FilterGreeting: the greeting name is not filtered out.
FilterGreeting_Off(new_data, greeting_name) == new_data

\* "Filter out greeting name if it was mistakenly extracted"
FilterGreeting(new_data, greeting_name) ==
    IF Get(new_data, "name") = greeting_name
    THEN [f \in DOMAIN new_data \cup {"name"} |->
             IF f = "name" THEN None ELSE new_data[f]]
    ELSE new_data

\* Mutant of FieldUpdated: None and empty values are not skipped.
FieldUpdated_KeepsEmpty(existing_booking, new_data, field) ==
    LET new_value == new_data[field]
    IN  /\ field \notin skipped_fields
        /\ new_value # Get(existing_booking, field)
        /\ ~(field = "name" /\ Len(Split(new_value)) < 2)

\* One turn of the merge loop: whether field is written to merged.
FieldUpdated(existing_booking, new_data, field) ==
    LET new_value == new_data[field]
    IN  /\ field \notin skipped_fields
        /\ ~(new_value = None \/ new_value = "")
        /\ IF field \in protected_fields
           THEN /\ Truthy(new_value)
                /\ new_value # Get(existing_booking, field)
                /\ ~(field = "name" /\ Len(Split(new_value)) < 2)
           ELSE new_value # Get(existing_booking, field)

smart_merge(existing_booking, parsed, greeting_name, now) ==
    LET new_data == FilterGreeting(parsed, greeting_name)
        updated_fields ==
            {f \in DOMAIN new_data : FieldUpdated(existing_booking, new_data, f)}
        merged ==
            [f \in DOMAIN existing_booking \cup updated_fields \cup {"updatedAt"} |->
                IF f = "updatedAt" THEN now
                ELSE IF f \in updated_fields THEN new_data[f]
                ELSE existing_booking[f]]
    IN  [merged |-> merged, updated_fields |-> updated_fields]

\* ------------------------------------------------------------- build_doc
\* Mutant of OrUnknown: the value is taken as it is.
OrUnknown_AsIs(v) == v

\* x or "Unknown"
OrUnknown(v) == IF Truthy(v) THEN v ELSE "Unknown"

build_doc(data, now) ==
    [ name |-> Get(data, "name"),
      vehicleType |-> OrUnknown(Get(data, "vehicleType")),
      address |-> Get(data, "address"),
      phoneNumber |-> Get(data, "phoneNumber"),
      tour |-> Get(data, "tour"),
      tourDate |-> Get(data, "tourDate"),
      tourTime |-> Get(data, "tourTime"),
      totalPassengers |-> Get(data, "totalPassengers"),
      specialRequirements |-> "No",
      booking_reference |-> data.booking_reference,
      platform |-> "GYG",
      updatedAt |-> now ]

\* {**doc, "createdAt": datetime.now(UTC)}
WithCreatedAt(doc, now) ==
    [f \in DOMAIN doc \cup {"createdAt"} |->
        IF f = "createdAt" THEN now ELSE doc[f]]

\* ------------------------------------------------------------------ main
\* datetime.now(UTC) while message number idx + 1 is handled
Now == idx + 1

\* Mutant of UseMerge: the oracle's is_amendment counts like the classifier's.
UseMerge_OracleOpinion(existing_booking, is_amendment, parsed) ==
    /\ existing_booking # Nothing
    /\ \/ is_amendment
       \/ parsed.is_amendment
       \/ \E field \in {"name", "phoneNumber"} : Get(parsed, field) = None

\* "If this is an amendment or existing booking exists"
UseMerge(existing_booking, is_amendment, parsed) ==
    /\ existing_booking # Nothing
    /\ \/ is_amendment
       \/ \E field \in {"name", "phoneNumber"} : Get(parsed, field) = None

NoLast ==
    [ kind |-> "none", allowed |-> FALSE, is_amendment |-> FALSE,
      greeting_name |-> None,
      oracle_called |-> FALSE, backend |-> "none", response |-> Failure,
      parsed |-> Nothing, existing |-> Nothing,
      updated_fields |-> {}, before |-> <<>> ]

\* What main() computes from one fetched message before the oracle is asked.
Classify(msg) ==
    [ allowed |-> is_allowed_booking_email(msg.subject, msg.content),
      is_amendment |-> detect_amendment(msg.content, msg.subject),
      greeting_name |-> extract_greeting_name(msg.content) ]

\* mail.fetch or the parsing of the raw message raises: the except clause
\* of the loop counts an error and the loop goes on.
FetchRaised == [raised |-> TRUE]

\* The messages as main() sees them.
Arrivals == {Classify(msg) : msg \in Messages} \cup {FetchRaised}

\* One call of parse_with_ai: the backend whose answer is returned (Hugging
\* Face when g4f is missing or returned nothing), that backend's response,
\* and the value returned.
Answer(draw, g4f_present) ==
    LET by_g4f == g4f_present /\ parse_with_g4f(draw[1]) # Nothing
    IN  [ backend |-> IF by_g4f THEN "g4f" ELSE "huggingface",
          response |-> IF by_g4f THEN draw[1] ELSE draw[2],
          parsed |-> parse_with_ai(draw[1], draw[2], g4f_present) ]

\* What parse_with_ai can do, with g4f present and without.
Answers ==
    [g4f_present \in BOOLEAN |->
        {Answer(draw, g4f_present) : draw \in OracleDraws}]

\* Mutant of PastFilter: the oracle is asked before the filter is applied.
PastFilter_Always(c) == TRUE

\* "STRICT FILTER": whether the turn gets past the filter, to the call of
\* parse_with_ai.
PastFilter(c) == c.allowed

\* Mutant of HasReference: the reference is not validated.
HasReference_Always(parsed) == TRUE

\* "Validate booking reference"
HasReference(parsed) == Truthy(Get(parsed, "booking_reference"))

\* Mutant of ShouldWrite: the merged document is written in every merge.
ShouldWrite_Always(updated_fields) == TRUE

\* "if updated_fields:" before update_one
ShouldWrite(updated_fields) == updated_fields # {}

\* One turn of the loop of main() on a message classified as c, the oracle
\* call returning parsed, the collection being coll at time now: the
\* collection after it and what the turn printed.
Handle(c, parsed, coll, now) ==
    LET is_amendment == c.is_amendment
        greeting_name == c.greeting_name
        booking_ref == Get(parsed, "booking_reference")
        existing == find_one(coll, booking_ref)
        seen == [NoLast EXCEPT !.before = coll,
                               !.allowed = c.allowed,
                               !.is_amendment = is_amendment,
                               !.greeting_name = greeting_name,
                               !.oracle_called = PastFilter(c)]
    IN  IF c = FetchRaised
        THEN [kind |-> "exception", coll |-> coll,
              log |-> [NoLast EXCEPT !.before = coll]]
        ELSE IF ~c.allowed
        THEN [kind |-> "skipped", coll |-> coll,
              log |-> [NoLast EXCEPT !.before = coll,
                                     !.allowed = c.allowed,
                                     !.oracle_called = PastFilter(c)]]
        ELSE IF parsed = Nothing
        THEN [kind |-> "error", coll |-> coll, log |-> seen]
        ELSE IF parsed.is_cancellation
        THEN IF Truthy(booking_ref)
             THEN IF existing # Nothing
                  THEN [kind |-> "cancelled",
                        coll |-> delete_one(coll, booking_ref),
                        log |-> [seen EXCEPT !.parsed = parsed,
                                             !.existing = existing]]
                  ELSE [kind |-> "cancel_unmatched", coll |-> coll,
                        log |-> [seen EXCEPT !.parsed = parsed]]
             ELSE [kind |-> "cancel_noref", coll |-> coll,
                   log |-> [seen EXCEPT !.parsed = parsed]]
        ELSE IF ~HasReference(parsed)
        THEN [kind |-> "noref", coll |-> coll,
              log |-> [seen EXCEPT !.parsed = parsed]]
        ELSE IF UseMerge(existing, is_amendment, parsed)
        THEN LET m == smart_merge(existing, parsed, greeting_name, now)
             IN  IF ShouldWrite(m.updated_fields)
                 THEN [kind |-> "amended",
                       coll |-> update_one(coll, booking_ref, m.merged),
                       log |-> [seen EXCEPT !.parsed = parsed,
                                            !.existing = existing,
                                            !.updated_fields = m.updated_fields]]
                 ELSE [kind |-> "duplicate", coll |-> coll,
                       log |-> [seen EXCEPT !.parsed = parsed,
                                            !.existing = existing]]
        ELSE [kind |-> "new",
              coll |-> insert_one(coll, WithCreatedAt(build_doc(parsed, now), now)),
              log |-> [seen EXCEPT !.parsed = parsed, !.existing = existing]]

\* Mutant of ProcessedKinds: a candidate without reference counts as
\* processed.
ProcessedKinds_NoRef ==
    {"cancelled", "cancel_unmatched", "cancel_noref", "amended", "duplicate",
     "new", "noref"}

\* The outcomes after which main() adds one to each counter.
ProcessedKinds ==
    {"cancelled", "cancel_unmatched", "cancel_noref", "amended", "duplicate",
     "new"}

SavedKinds == {"new"}

UpdatedKinds == {"amended"}

CancelledKinds == {"cancelled"}

DuplicateKinds == {"duplicate"}

\* Mutant of ErrorKinds: an unmatched cancellation counts as an error.
ErrorKinds_Unmatched == {"error", "exception", "cancel_unmatched"}

ErrorKinds == {"error", "exception"}

Bump(counter, kind, kinds) == IF kind \in kinds THEN counter + 1 ELSE counter

\* Mutant of AfterTurn: an exception or a failed extraction ends the run.
AfterTurn_Fatal(kind) ==
    IF kind \in {"exception", "error"} THEN "done" ELSE "loop"

\* Where control goes at the end of a turn: every branch of the loop body,
\* the except clause included, goes on to the next message.
AfterTurn(kind) == "loop"

Init ==
    /\ pc = "start"
    /\ use_g4f \in BOOLEAN
    /\ n = 0
    /\ idx = 0
    /\ store = <<>>
    /\ processed = 0
    /\ saved = 0
    /\ updated = 0
    /\ cancelled = 0
    /\ duplicates = 0
    /\ errors = 0
    /\ last = NoLast

\* The Gmail login fails: main() returns.
LoginFailed ==
    /\ pc = "start"
    /\ pc' = "done"
    /\ UNCHANGED << use_g4f, n, idx, store, processed, saved, updated,
                    cancelled, duplicates, errors, last >>

\* The login succeeds and the search returns the ids of the mailbox.
Connect ==
    /\ pc = "start"
    /\ \E mailbox \in 0..MaxMailbox : n' = Min(mailbox, BatchLimit)
    /\ pc' = "loop"
    /\ UNCHANGED << use_g4f, idx, store, processed, saved, updated,
                    cancelled, duplicates, errors, last >>

\* One message of the batch, from fetch to the end of the loop body.
ProcessEmail ==
    /\ pc = "loop"
    /\ idx < n
    /\ \E c \in Arrivals, a \in Answers[use_g4f] :
        \E r \in {Handle(c, a.parsed, store, Now)} :
              /\ store' = r.coll
              /\ last' = IF r.log.oracle_called
                         THEN [r.log EXCEPT !.kind = r.kind,
                                            !.backend = a.backend,
                                            !.response = a.response]
                         ELSE [r.log EXCEPT !.kind = r.kind]
              /\ processed' = Bump(processed, r.kind, ProcessedKinds)
              /\ saved' = Bump(saved, r.kind, SavedKinds)
              /\ updated' = Bump(updated, r.kind, UpdatedKinds)
              /\ cancelled' = Bump(cancelled, r.kind, CancelledKinds)
              /\ duplicates' = Bump(duplicates, r.kind, DuplicateKinds)
              /\ errors' = Bump(errors, r.kind, ErrorKinds)
              /\ pc' = AfterTurn(r.kind)
    /\ idx' = idx + 1
    /\ UNCHANGED << use_g4f, n >>

\* The batch is exhausted: the summary is printed and main() logs out.
Summary ==
    /\ pc = "loop"
    /\ idx = n
    /\ pc' = "done"
    /\ UNCHANGED << use_g4f, n, idx, store, processed, saved, updated,
                    cancelled, duplicates, errors, last >>

Next == LoginFailed \/ Connect \/ ProcessEmail \/ Summary

Spec == Init /\ [][Next]_vars

\* main() runs on: the loop goes to the next message while one is left, and
\* to the summary after the last. The second conjunct is WF_vars(ProcessEmail)
\* written out: a step of Spec that adds one to idx is a ProcessEmail step.
FairSpec ==
    /\ Spec
    /\ WF_vars(Summary)
    /\ ([]<>~(ENABLED <<ProcessEmail>>_vars) \/ []<><<idx' = idx + 1>>_vars)

\* ================================================================ claims
\* Helpers of the claims: the last turn handled a candidate (the oracle
\* returned one) that is no cancellation and carries a reference.
LastCandidate == last.parsed # Nothing

LastBooking ==
    /\ LastCandidate
    /\ ~last.parsed.is_cancellation
    /\ Truthy(last.parsed.booking_reference)

LastRef == last.parsed.booking_reference

\* C1 (idempotence): when a turn created the record of a reference that had
\* none, and the next turn handles the same candidate with the same
\* classifier hint and greeting name, that turn is a NoOp and leaves the
\* collection as it is.
C1_ReplayIsNoOp ==
    [][ ( /\ idx' = idx + 1
          /\ last.kind = "new"
          /\ last.existing = Nothing
          /\ last'.parsed = last.parsed
          /\ last'.is_amendment = last.is_amendment
          /\ last'.greeting_name = last.greeting_name )
        => ( last'.kind = "duplicate" /\ store' = store ) ]_vars

\* C2 (uniqueness): the collection holds at most one record per booking
\* reference.
C2_UniqueReference ==
    \A i, j \in 1..Len(store) :
        store[i].booking_reference = store[j].booking_reference => i = j

\* C3 (always merge): when a record of the candidate's reference exists and
\* the candidate is no cancellation, the turn is a merge (an update or a
\* NoOp), never an insert, and the same turn with the other value of the
\* classifier's amendment hint ends the same way.
C3_ExistingMeansMerge ==
    (LastBooking /\ Matches(last.before, LastRef) # {})
        => /\ last.kind \in {"amended", "duplicate"}
           /\ \A hint \in BOOLEAN :
                 Handle([allowed |-> TRUE, is_amendment |-> hint,
                         greeting_name |-> last.greeting_name],
                        last.parsed, last.before, idx).kind = last.kind

\* The record the last turn wrote: the one it inserted, or the one it
\* updated.
Written ==
    IF last.kind = "new" THEN store[Len(store)]
    ELSE store[FirstMatch(last.before, LastRef)]

\* C4 (greeting suppression): when the candidate's name is the greeting name
\* of its message, the record the turn writes does not carry that name,
\* unless the stored record carried it already; a new record has no name.
C4_GreetingSuppressed ==
    ( /\ LastBooking
      /\ last.kind \in {"new", "amended"}
      /\ last.greeting_name # None
      /\ last.parsed.name = last.greeting_name )
        => /\ \/ Written.name # last.greeting_name
              \/ /\ last.existing # Nothing
                 /\ last.existing.name = last.greeting_name
           /\ last.kind = "new" => Written.name = None

\* C5 (protected-field monotonicity): a turn that handles no cancellation
\* leaves every record that had a name and a phone number with a name and
\* a phone number; either changes only to the value the candidate carries,
\* which is present and differs from the stored one.
C5_ProtectedMonotone ==
    (last.kind # "none" /\ ~(LastCandidate /\ last.parsed.is_cancellation))
        => \A i \in 1..Len(last.before) :
              LET b == last.before[i]
              IN  (Truthy(b.name) /\ Truthy(b.phoneNumber))
                    => /\ i <= Len(store)
                       /\ store[i].booking_reference = b.booking_reference
                       /\ Truthy(store[i].name)
                       /\ Truthy(store[i].phoneNumber)
                       /\ \A f \in {"name", "phoneNumber"} :
                             store[i][f] # b[f]
                                => /\ LastBooking
                                   /\ LastRef = b.booking_reference
                                   /\ Truthy(last.parsed[f])
                                   /\ store[i][f] = last.parsed[f]

\* A merge replaced both the name and the phone number of a record that had
\* them.
C5_Witness ==
    /\ last.kind = "amended"
    /\ Truthy(last.existing.name)
    /\ Truthy(last.existing.phoneNumber)
    /\ {"name", "phoneNumber"} \subseteq last.updated_fields

\* C6 (single-token name rejection): when a record of the candidate's
\* reference exists and the candidate's name has fewer than two tokens, the
\* change-set does not hold name and no record of the reference carries
\* that name after the turn unless one did before.
C6_SingleTokenRejected ==
    ( /\ LastBooking
      /\ Matches(last.before, LastRef) # {}
      /\ Truthy(last.parsed.name)
      /\ Len(Split(last.parsed.name)) < 2 )
        => /\ "name" \notin last.updated_fields
           /\ \A i \in Matches(store, LastRef) :
                 store[i].name = last.parsed.name
                    => \E j \in Matches(last.before, LastRef) :
                          last.before[j].name = last.parsed.name

\* C7 (cancellation determinism): a cancellation whose reference has no
\* record (or that has no reference) is a no-op: the collection is
\* unchanged, nothing is saved, updated or cancelled, and the error counter
\* does not move.
C7_UnmatchedCancellationNoOp ==
    [][ ( /\ idx' = idx + 1
          /\ last'.parsed # Nothing
          /\ last'.parsed.is_cancellation
          /\ Matches(store, last'.parsed.booking_reference) = {} )
        => ( /\ store' = store
             /\ errors' = errors
             /\ saved' = saved
             /\ updated' = updated
             /\ cancelled' = cancelled ) ]_vars

\* A cancellation of a reference the non-empty collection does not hold.
C7_Witness ==
    /\ LastCandidate
    /\ last.parsed.is_cancellation
    /\ Truthy(LastRef)
    /\ Matches(last.before, LastRef) = {}
    /\ Len(last.before) > 0
    /\ store = last.before

\* C8 (matched cancellation deletes the booking): after a cancellation of a
\* reference that had a record, the collection holds no record of that
\* reference.
C8_CancelledIsGone ==
    ( /\ LastCandidate
      /\ last.parsed.is_cancellation
      /\ Matches(last.before, LastRef) # {} )
        => Matches(store, LastRef) = {}

\* The candidate fields a merge may change.
DataFields ==
    {"name", "phoneNumber", "tourDate", "tourTime", "totalPassengers", "tour",
     "vehicleType", "address"}

\* The change-set the claim describes, for the last turn's candidate and
\* the record it found.
ExpectedChanges ==
    {f \in DataFields :
        LET v == last.parsed[f]
        IN  /\ v # None
            /\ v # ""
            /\ v # last.existing[f]
            /\ f = "name" => (v # last.greeting_name /\ Len(Split(v)) >= 2)}

\* C9 (change-set exactness): in a merge the change-set is exactly the set
\* of candidate data fields that are present, differ from the stored value
\* and, for name, pass the greeting and two-token checks; the record after
\* the merge is the record before it with exactly those fields replaced by
\* the candidate's values.
C9_ChangeSetExact ==
    (LastBooking /\ last.kind \in {"amended", "duplicate"})
        => /\ last.updated_fields = ExpectedChanges
           /\ Len(store) = Len(last.before)
           /\ LET k == FirstMatch(last.before, LastRef)
              IN  /\ DOMAIN store[k] = DOMAIN last.existing
                  /\ \A f \in DOMAIN last.existing \ {"updatedAt"} :
                        store[k][f] = IF f \in ExpectedChanges
                                      THEN last.parsed[f]
                                      ELSE last.existing[f]
                  /\ \A i \in 1..Len(store) :
                        i # k => store[i] = last.before[i]

\* Scenario A: an amendment that carries only a new tour date.
C9_Witness ==
    /\ last.kind = "amended"
    /\ last.is_amendment
    /\ last.updated_fields = {"tourDate"}
    /\ last.existing.name = "Maria Lopez"
    /\ last.existing.phoneNumber = "+1555"
    /\ last.parsed.name = None

\* C10 (skipped messages): when the classifier rejects the message, the
\* oracle returns nothing, or a candidate that is no cancellation has no
\* reference, the collection after the turn is the collection before it.
C10_SkippedLeavesStore ==
    ( /\ last.kind \notin {"none", "exception"}
      /\ \/ ~last.allowed
         \/ last.parsed = Nothing
         \/ (~last.parsed.is_cancellation /\ ~Truthy(LastRef)) )
        => store = last.before

\* A candidate without a reference met a collection that holds a booking.
C10_Witness ==
    /\ LastCandidate
    /\ ~last.parsed.is_cancellation
    /\ ~Truthy(LastRef)
    /\ Truthy(last.parsed.name)
    /\ Len(last.before) > 0
    /\ store = last.before

\* C11 (classifier gating): the oracle is asked only in a turn whose message
\* the classifier allowed; in a turn whose message it rejected the oracle
\* is not asked and no candidate exists.
C11_OracleAfterClassifier ==
    /\ last.oracle_called => last.allowed
    /\ (last.kind \notin {"none", "exception"} /\ ~last.allowed)
          => (~last.oracle_called /\ last.parsed = Nothing)

\* A rejected message was skipped without the oracle, after a turn that
\* stored a booking.
C11_Witness ==
    /\ last.kind = "skipped"
    /\ ~last.allowed
    /\ ~last.oracle_called
    /\ Len(store) > 0

\* C12 (create with defaults): a candidate that is no cancellation, carries
\* a reference and finds no record of it creates one record of that
\* reference, whichever other fields it lacks; every stored record has a
\* vehicleType that is neither None nor empty, "Unknown" when the candidate
\* that created it had none.
C12_CreateWithDefaults ==
    /\ \A i \in 1..Len(store) : Truthy(store[i].vehicleType)
    /\ (LastBooking /\ Matches(last.before, LastRef) = {})
          => /\ last.kind = "new"
             /\ store = Append(last.before, Written)
             /\ Written.booking_reference = LastRef
             /\ ~Truthy(last.parsed.vehicleType)
                   => Written.vehicleType = "Unknown"

\* A candidate with nothing but a reference and a date created a record.
C12_Witness ==
    /\ LastBooking
    /\ last.kind = "new"
    /\ Matches(last.before, LastRef) = {}
    /\ last.parsed.name = None
    /\ last.parsed.phoneNumber = None
    /\ last.parsed.vehicleType = None
    /\ Written.vehicleType = "Unknown"

\* The fields of an oracle response other than the two the parsers touch.
PassThroughFields(response) ==
    DOMAIN response \ {"booking_reference", "totalPassengers"}

\* C13 (malformed passenger count): when the response a backend returns
\* carries a totalPassengers that int() rejects, the candidate exists, its
\* totalPassengers is None, its other fields are those of the response (the
\* reference in upper case), and the turn is not counted as an extraction
\* failure.
C13_MalformedCountNeverBlocks ==
    ( /\ last.oracle_called
      /\ last.response # Failure
      /\ Truthy(last.response.totalPassengers)
      /\ IntOf(last.response.totalPassengers) = IntError )
        => /\ last.parsed # Nothing
           /\ last.kind # "error"
           /\ last.parsed.totalPassengers = None
           /\ last.parsed.booking_reference
                 = IF Truthy(last.response.booking_reference)
                   THEN Upper(last.response.booking_reference)
                   ELSE last.response.booking_reference
           /\ \A f \in PassThroughFields(last.response) :
                 last.parsed[f] = last.response[f]

\* C14 (empty string is absent): no stored record holds an empty string in
\* a field taken from a candidate, whether the record was created or
\* merged.
C14_NoEmptyStringStored ==
    \A i \in 1..Len(store) : \A f \in DataFields : store[i][f] # ""

\* C15 (update versus NoOp): a merge writes the collection exactly when its
\* change-set is not empty, and then the record's updatedAt is the time of
\* the turn; with an empty change-set the turn is a NoOp and the collection,
\* the record's updatedAt included, is as it was.
C15_UpdateIffChanges ==
    (LastBooking /\ last.kind \in {"amended", "duplicate"})
        => LET k == FirstMatch(last.before, LastRef)
           IN  /\ last.kind = "amended" <=> last.updated_fields # {}
               /\ last.updated_fields # {}
                     => /\ store # last.before
                        /\ store[k].updatedAt = idx
               /\ last.updated_fields = {}
                     => /\ store = last.before
                        /\ store[k].updatedAt = last.existing.updatedAt

\* A NoOp on a record written in an earlier turn.
C15_Witness ==
    /\ last.kind = "duplicate"
    /\ last.updated_fields = {}
    /\ Truthy(last.parsed.tourDate)
    /\ store[FirstMatch(last.before, LastRef)].updatedAt < idx

\* The fields the claim calls bookkeeping.
Bookkeeping ==
    {"booking_reference", "createdAt", "platform", "specialRequirements",
     "is_cancellation", "is_amendment"}

\* C16 (bookkeeping frozen): after a merge the record keeps its
\* booking_reference, createdAt, platform and specialRequirements, carries
\* no is_cancellation and no is_amendment, and the change-set names none of
\* these fields, whatever the candidate carries for them.
C16_BookkeepingFrozen ==
    (LastBooking /\ last.kind \in {"amended", "duplicate"})
        => LET k == FirstMatch(last.before, LastRef)
           IN  /\ \A f \in {"booking_reference", "createdAt", "platform",
                            "specialRequirements"} :
                     /\ f \in DOMAIN store[k]
                     /\ store[k][f] = last.existing[f]
               /\ DOMAIN store[k] \cap {"is_cancellation", "is_amendment"} = {}
               /\ last.updated_fields \cap Bookkeeping = {}

\* A merge that wrote the record, from a candidate whose platform and
\* specialRequirements are not the record's.
C16_Witness ==
    /\ last.kind = "amended"
    /\ "platform" \in DOMAIN last.parsed
    /\ last.parsed.platform # last.existing.platform
    /\ last.parsed.specialRequirements # last.existing.specialRequirements
    /\ store[FirstMatch(last.before, LastRef)].platform = "GYG"

\* The documents of coll whose reference is not ref, in order.
Others(coll, ref) ==
    SelectSeq(coll, LAMBDA d : d.booking_reference # ref)

\* coll without its k-th document.
Without(coll, k) ==
    [i \in 1..(Len(coll) - 1) |-> IF i < k THEN coll[i] ELSE coll[i + 1]]

\* after is before, or before after one insert, one update or one delete.
AtMostOneMutation(before, after) ==
    \/ after = before
    \/ /\ Len(after) = Len(before)
       /\ Cardinality({i \in 1..Len(before) : after[i] # before[i]}) = 1
    \/ /\ Len(after) = Len(before) + 1
       /\ SubSeq(after, 1, Len(before)) = before
    \/ /\ Len(after) + 1 = Len(before)
       /\ \E k \in 1..Len(before) : after = Without(before, k)

\* C17 (single-record scope): a turn changes the collection by at most one
\* insert, one update or one delete, and when its candidate has reference r
\* every document with another reference is left as it was.
C17_SingleRecordScope ==
    /\ last.kind # "none" => AtMostOneMutation(last.before, store)
    /\ (LastCandidate /\ Truthy(last.parsed.booking_reference))
          => Others(store, LastRef) = Others(last.before, LastRef)

\* A cancellation that deleted a record which was not the first of the
\* collection, a record of another reference standing before it.
C17_Witness ==
    /\ last.kind = "cancelled"
    /\ Len(last.before) >= 2
    /\ last.before[1].booking_reference # LastRef
    /\ Len(store) + 1 = Len(last.before)
    /\ Others(store, LastRef) # << >>

\* C18 (batch continuity): once the loop has started, the run reaches its
\* end with every message of the batch handled, whatever happened while
\* handling each of them.
C18_BatchContinuity ==
    (pc = "loop") ~> (pc = "done" /\ idx = n)

\* A finished run of at least two messages in which a turn failed and the
\* last message was still handled and saved.
C18_Witness ==
    /\ pc = "done"
    /\ idx = n
    /\ n >= 2
    /\ errors >= 1
    /\ last.kind = "new"

\* The six counters of the summary.
counters == << processed, saved, updated, cancelled, duplicates, errors >>

\* The last turn asked the oracle and got no candidate.
LastOracleFailed == last.oracle_called /\ last.parsed = Nothing

\* The last turn's candidate is no cancellation and has no reference.
LastMissingReference ==
    /\ LastCandidate
    /\ ~last.parsed.is_cancellation
    /\ ~Truthy(Get(last.parsed, "booking_reference"))

\* C19 as stated (skip accounting): a turn skipped because the oracle failed
\* or because the candidate has no reference is counted, processed, updated
\* and cancelled stay, and the missing reference is not counted as an
\* extraction failure.
C19_SkipsAreCounted ==
    [][ ( /\ idx' = idx + 1
          /\ LastOracleFailed' \/ LastMissingReference' )
        => /\ counters' # counters
           /\ UNCHANGED << processed, updated, cancelled >>
           /\ LastMissingReference' => errors' = errors ]_vars

\* C19 amended: a turn whose oracle call failed adds one to errors and to no
\* other counter; a turn skipped for a missing reference changes no counter
\* at all.
C19_SkipAccounting ==
    [][ idx' = idx + 1
        => /\ LastOracleFailed'
              => /\ errors' = errors + 1
                 /\ UNCHANGED << processed, saved, updated, cancelled,
                                 duplicates >>
           /\ LastMissingReference' => UNCHANGED counters ]_vars

\* A failed oracle call counted in an earlier turn, then a turn skipped for
\* a missing reference that no counter shows.
C19_Witness ==
    /\ last.kind = "noref"
    /\ LastMissingReference
    /\ idx = 2
    /\ errors = 1
    /\ processed + saved + updated + cancelled + duplicates = 0

\* The last turn, handled again from the same collection at the same time
\* with the same classifier results and a candidate that differs only in the
\* is_amendment the oracle returned.
OtherOpinion ==
    Handle([allowed |-> TRUE, is_amendment |-> last.is_amendment,
            greeting_name |-> last.greeting_name],
           [last.parsed EXCEPT !.is_amendment = ~@], last.before, idx)

\* C20 (the oracle's amendment opinion is ignored): a turn that differs from
\* the last one only in the is_amendment of the oracle's answer has the same
\* outcome, the same change-set and leaves the same collection.
C20_OracleOpinionIgnored ==
    LastCandidate
        => /\ OtherOpinion.kind = last.kind
           /\ OtherOpinion.log.updated_fields = last.updated_fields
           /\ OtherOpinion.coll = store

\* A merge that wrote the record while the oracle called the message an
\* amendment and the classifier did not.
C20_Witness ==
    /\ last.kind = "amended"
    /\ last.parsed.is_amendment
    /\ ~last.is_amendment
    /\ OtherOpinion.kind = "amended"

====
